---- MODULE Spec2Model ----
(***************************************************************************)
(* StudentRAG (src/code/rag_demo.py): a keyword-overlap document retriever *)
(* and extractive answer synthesiser.  A Python str is modelled as the     *)
(* sequence of its characters, each a one-character string; a code point   *)
(* outside ASCII is the single element "U+XXXX".  The "added_at" field of  *)
(* a document is a wall-clock timestamp that no operation reads and is not *)
(* modelled.  What the methods write with print() is not state.  The       *)
(* variables op, args and ret hold the last call, its arguments and the    *)
(* value it returned; raised is the exception it propagated, or "None".    *)
(* The question loop of run_student_demo is at pc, with the stripped line  *)
(* user_question, asked calls of ask_question so far and exc the exception *)
(* raised in the current pass of the loop; its calls of print() are taken  *)
(* to return.  documents, embeddings and index are the fields of a         *)
(* MiniSemanticSearch (src/code/mini_semantic_search.py), whose            *)
(* "indexed_at" timestamp is not modelled either.                          *)
(***************************************************************************)
EXTENDS Integers, Sequences, FiniteSets

VARIABLES knowledge_base, document_count, op, args, ret, raised,
          pc, user_question, asked, exc,
          documents, embeddings, index

\* the question loop of run_student_demo
loop_vars == <<pc, user_question, asked, exc>>

\* a MiniSemanticSearch (src/code/mini_semantic_search.py)
engine_vars == <<documents, embeddings, index>>

vars == <<knowledge_base, document_count, op, args, ret, raised,
          pc, user_question, asked, exc, documents, embeddings, index>>

---------------------------------------------------------------------------
(* Bounds of the exploration *)

MaxDocs == 2

MaxResultsBound == 3

---------------------------------------------------------------------------
(* Python str primitives used by the code *)

Whitespace == {" ", "\t", "\n"}

UpperToLower ==
    [A |-> "a", B |-> "b", C |-> "c", D |-> "d", E |-> "e", F |-> "f",
     G |-> "g", H |-> "h", I |-> "i", J |-> "j", K |-> "k", L |-> "l",
     M |-> "m", N |-> "n", O |-> "o", P |-> "p", Q |-> "q", R |-> "r",
     S |-> "s", T |-> "t", U |-> "u", V |-> "v", W |-> "w", X |-> "x",
     Y |-> "y", Z |-> "z"]

LowerChar(c) == IF c \in DOMAIN UpperToLower THEN UpperToLower[c] ELSE c

\* str.lower()
lower(s) == IF s = <<>> THEN <<>> ELSE [i \in 1..Len(s) |-> LowerChar(s[i])]

RECURSIVE SplitWords(_, _, _)
SplitWords(s, cur, acc) ==
    IF s = <<>>
    THEN IF cur = <<>> THEN acc ELSE Append(acc, cur)
    ELSE IF Head(s) \in Whitespace
         THEN SplitWords(Tail(s), <<>>,
                         IF cur = <<>> THEN acc ELSE Append(acc, cur))
         ELSE SplitWords(Tail(s), Append(cur, Head(s)), acc)

\* str.split() with no argument: the maximal runs of non-whitespace
split(s) == SplitWords(s, <<>>, <<>>)

RECURSIVE SplitSep(_, _, _, _)
SplitSep(s, sep, cur, acc) ==
    IF Len(s) < Len(sep)
    THEN Append(acc, cur \o s)
    ELSE IF SubSeq(s, 1, Len(sep)) = sep
         THEN SplitSep(SubSeq(s, Len(sep) + 1, Len(s)), sep, <<>>,
                       Append(acc, cur))
         ELSE SplitSep(Tail(s), sep, Append(cur, Head(s)), acc)

\* str.split(sep): cut at every occurrence of sep, scanning left to right
split_sep(s, sep) == SplitSep(s, sep, <<>>, <<>>)

RECURSIVE LStrip(_)
LStrip(s) ==
    IF s # <<>> /\ Head(s) \in Whitespace THEN LStrip(Tail(s)) ELSE s

RECURSIVE RStrip(_)
RStrip(s) ==
    IF s # <<>> /\ s[Len(s)] \in Whitespace
    THEN RStrip(SubSeq(s, 1, Len(s) - 1))
    ELSE s

\* str.strip()
strip(s) == RStrip(LStrip(s))

\* Faulty variant of contains: word is one of the whitespace-separated
\* tokens of text
ContainsToken(word, text) ==
    \E i \in 1..Len(split(text)) : split(text)[i] = word

\* word in text (substring containment)
contains(word, text) ==
    \E i \in 0..(Len(text) - Len(word)) :
        SubSeq(text, i + 1, i + Len(word)) = word

\* str.endswith(suffix)
endswith(s, suffix) ==
    /\ Len(s) >= Len(suffix)
    /\ SubSeq(s, Len(s) - Len(suffix) + 1, Len(s)) = suffix

RECURSIVE join(_, _)
\* sep.join(parts)
join(sep, parts) ==
    IF parts = <<>> THEN <<>>
    ELSE IF Len(parts) = 1 THEN parts[1]
    ELSE parts[1] \o sep \o join(sep, Tail(parts))

\* seq[:n], Python's slice with a possibly negative stop
SliceTo(seq, n) ==
    IF n >= 0
    THEN SubSeq(seq, 1, IF n < Len(seq) THEN n ELSE Len(seq))
    ELSE SubSeq(seq, 1, Len(seq) + n)

---------------------------------------------------------------------------
(* String literals of the code *)

NotFoundMsg ==
    <<"U+274C"," ","S","o","r","r","y",","," ","I"," ","c","o","u","l","d",
      "n","'","t"," ","f","i","n","d"," ","a","n","y"," ","r","e","l","e","v",
      "a","n","t"," ","i","n","f","o","r","m","a","t","i","o","n"," ","i","n",
      " ","m","y"," ","k","n","o","w","l","e","d","g","e"," ","b","a","s","e",
      ".">>

AnswerPrefix ==
    <<"B","a","s","e","d"," ","o","n"," ","m","y"," ","k","n","o","w","l","e",
      "d","g","e"," ","b","a","s","e",":"," ">>

SourcesPrefix ==
    <<"\n","\n","U+1F4DA"," ","S","o","u","r","c","e","s",":"," ">>

InsufficientMsg ==
    <<"I"," ","f","o","u","n","d"," ","r","e","l","e","v","a","n","t"," ","d",
      "o","c","u","m","e","n","t","s"," ","b","u","t"," ","c","o","u","l","d",
      "n","'","t"," ","e","x","t","r","a","c","t"," ","a"," ","s","p","e","c",
      "i","f","i","c"," ","a","n","s","w","e","r","."," ","P","l","e","a","s",
      "e"," ","t","r","y"," ","r","e","p","h","r","a","s","i","n","g"," ","y",
      "o","u","r"," ","q","u","e","s","t","i","o","n",".">>

NoDocumentsMsg ==
    <<"N","o"," ","r","e","l","e","v","a","n","t"," ","d","o","c","u","m","e",
      "n","t","s"," ","f","o","u","n","d",".">>

SentenceSep == <<".", " ">>

SourcesSep == <<",", " ">>

DefaultCategory == <<"g","e","n","e","r","a","l">>

AskMaxResults == 3

---------------------------------------------------------------------------
(* Inputs: titles, contents and queries offered to the operations *)

TitleA ==
    <<"P","y","t","h","o","n"," ","B","a","s","i","c","s">>

ContentA ==
    <<"P","y","t","h","o","n"," ","i","s"," ","a"," ","l","a","n","g","u","a",
      "g","e","."," ","I","t"," ","i","s"," ","e","a","s","y",".">>

TitleB ==
    <<"S","n","a","k","e","s">>

ContentB ==
    <<"P","y","t","h","o","n","s"," ","a","r","e"," ","s","n","a","k","e","s",
      " ","f","o","u","n","d"," ","i","n"," ","f","o","r","e","s","t","s",".">>

TitleC ==
    <<"L","a","n","g","u","a","g","e">>

ContentC ==
    <<"I","t"," ","i","s"," ","e","a","s","y",".">>

TitleE ==
    <<"J","a","v","a">>

ContentE ==
    <<"J","a","v","a"," ","i","s"," ","e","a","s","y","."," "," ","J","a","v",
      "a"," ","i","s"," ","a"," ","l","a","n","g","u","a","g","e">>

DocInputs ==
    { [title |-> TitleA, content |-> ContentA, category |-> DefaultCategory],
      [title |-> TitleB, content |-> ContentB, category |-> DefaultCategory],
      [title |-> TitleC, content |-> ContentC, category |-> DefaultCategory],
      [title |-> <<>>, content |-> <<>>, category |-> DefaultCategory],
      [title |-> TitleE, content |-> ContentE, category |-> <<"c","s">>] }

QueryScenario ==
    <<"p","y","t","h","o","n"," ","l","a","n","g","u","a","g","e">>

QueryRepeated ==
    <<"P","y","t","h","o","n"," ","p","y","t","h","o","n">>

QueryDotted ==
    <<"l","a","n","g","u","a","g","e",".">>

QueryNoMatch ==
    <<"r","u","s","t">>

QueryBlank ==
    <<" ","\t">>

QueryJava ==
    <<"j","a","v","a"," ","e","a","s","y">>

Queries ==
    { QueryScenario, QueryRepeated, QueryDotted, QueryNoMatch, QueryBlank,
      QueryJava, <<>> }

MaxResultsInputs == (0 - 1)..MaxResultsBound

---------------------------------------------------------------------------
(* StudentRAG *)

\* Faulty variant of NewDocument: the words counted by content.split(" ")
NewDocumentSplitOnSpace(doc_id, title, content, category) ==
    [id |-> doc_id, title |-> title, content |-> content,
     category |-> category, word_count |-> Len(split_sep(content, <<" ">>))]

\* Faulty variant of NewDocument: identifiers counted from 1
NewDocumentIdFromOne(doc_id, title, content, category) ==
    [id |-> doc_id + 1, title |-> title, content |-> content,
     category |-> category, word_count |-> Len(split(content))]

\* add_document: the document record built from the arguments
NewDocument(doc_id, title, content, category) ==
    [id |-> doc_id, title |-> title, content |-> content,
     category |-> category, word_count |-> Len(split(content))]

\* Faulty variant of AppendDocument: insert(0, document)
PrependDocument(kb, document) == <<document>> \o kb

\* add_document: self.knowledge_base.append(document)
AppendDocument(kb, document) == Append(kb, document)

\* simple_search: the text of a document the query words are looked up in
DocText(doc) == lower(doc.title \o <<" ">> \o doc.content)

\* Faulty variant of MatchedWords: a repeated query word is counted once
MatchedWordsDistinct(query_words, doc_text) ==
    LET firsts == { i \in 1..Len(query_words) :
                      \A j \in 1..(i - 1) : query_words[j] # query_words[i] }
        F[i \in 0..Len(query_words)] ==
            IF i = 0 THEN <<>>
            ELSE IF i \in firsts /\ contains(query_words[i], doc_text)
                 THEN Append(F[i - 1], query_words[i])
                 ELSE F[i - 1]
    IN  F[Len(query_words)]

\* simple_search: the query words found in the document, in query order
MatchedWords(query_words, doc_text) ==
    SelectSeq(query_words, LAMBDA word : contains(word, doc_text))

\* Faulty variant of Relevance: the division is not guarded
RelevanceUnguarded(matches, query_words) ==
    [num |-> matches, den |-> Len(query_words)]

\* Faulty variant of Relevance: the match count is not divided
RelevanceUnnormalised(matches, query_words) == [num |-> matches, den |-> 1]

\* simple_search: matches / len(query_words) if query_words else 0.
\* The float quotient of two small naturals is kept as the exact fraction:
\* two such quotients are equal or ordered as floats exactly when the
\* fractions are.
Relevance(matches, query_words) ==
    IF query_words # <<>>
    THEN [num |-> matches, den |-> Len(query_words)]
    ELSE [num |-> 0, den |-> 1]

ScoreEq(a, b) == a.num * b.den = b.num * a.den

ScoreLess(a, b) == a.num * b.den < b.num * a.den

\* Faulty variant of QueryWords: query.lower().split(" ")
QueryWordsSplitOnSpace(query) == split_sep(lower(query), <<" ">>)

\* query.lower().split()
QueryWords(query) == split(lower(query))

\* The text matching of simple_search on every document input and query,
\* evaluated once: MatchedWords is a function of the title, the content and
\* the query words alone.
MatchTable ==
    { [title |-> d.title, content |-> d.content, query |-> q,
       matched_words |-> MatchedWords(QueryWords(q), DocText(d))] :
          d \in DocInputs, q \in Queries }

MatchedWordsIn(doc, query) ==
    (CHOOSE r \in MatchTable :
        r.title = doc.title /\ r.content = doc.content /\ r.query = query
    ).matched_words

WordsTable == { <<q, QueryWords(q)>> : q \in Queries }

QueryWordsOf(query) == (CHOOSE r \in WordsTable : r[1] = query)[2]

\* Faulty variant of SearchEntry: the words are recorded newest first
SearchEntryNewestFirst(doc, query) ==
    LET query_words == QueryWordsOf(query)
        found == MatchedWordsIn(doc, query)
        matched_words == [i \in 1..Len(found) |-> found[Len(found) + 1 - i]]
        matches == Len(matched_words)
    IN  [document |-> doc,
         relevance_score |-> Relevance(matches, query_words),
         matched_words |-> matched_words,
         match_count |-> matches]

\* simple_search: the entry computed for one document
SearchEntry(doc, query) ==
    LET query_words == QueryWordsOf(query)
        matched_words == MatchedWordsIn(doc, query)
        matches == Len(matched_words)
    IN  [document |-> doc,
         relevance_score |-> Relevance(matches, query_words),
         matched_words |-> matched_words,
         match_count |-> matches]

\* Faulty variant of Included: if matches >= 0
IncludedAny(entry) == entry.match_count >= 0

\* simple_search: if matches > 0
Included(entry) == entry.match_count > 0

RECURSIVE ScanDocuments(_, _)
\* simple_search: the loop over self.knowledge_base
ScanDocuments(kb, query) ==
    IF kb = <<>> THEN <<>>
    ELSE LET entry == SearchEntry(Head(kb), query)
             rest == ScanDocuments(Tail(kb), query)
         IN  IF Included(entry) THEN <<entry>> \o rest ELSE rest

RECURSIVE InsertByScoreBeforeEqual(_, _)
\* Faulty variant of InsertByScore: e goes before the entries of equal score
InsertByScoreBeforeEqual(sorted, e) ==
    IF sorted = <<>> THEN <<e>>
    ELSE IF ScoreLess(e.relevance_score, Head(sorted).relevance_score)
         THEN <<Head(sorted)>> \o InsertByScoreBeforeEqual(Tail(sorted), e)
         ELSE <<e>> \o sorted

RECURSIVE InsertByScore(_, _)
\* place e after every entry whose score is not lower than e's
InsertByScore(sorted, e) ==
    IF sorted = <<>> THEN <<e>>
    ELSE IF ScoreLess(Head(sorted).relevance_score, e.relevance_score)
         THEN <<e>> \o sorted
         ELSE <<Head(sorted)>> \o InsertByScore(Tail(sorted), e)

RECURSIVE SortFrom(_, _)
SortFrom(sorted, rest) ==
    IF rest = <<>> THEN sorted
    ELSE SortFrom(InsertByScore(sorted, Head(rest)), Tail(rest))

\* results.sort(key=relevance_score, reverse=True): list.sort is stable,
\* and with reverse=True equal keys still keep their original order
SortByRelevance(results) == SortFrom(<<>>, results)

\* Faulty variant of Truncate: results[:max_results + 1]
TruncateOffByOne(results, max_results) == SliceTo(results, max_results + 1)

\* return results[:max_results]
Truncate(results, max_results) == SliceTo(results, max_results)

\* simple_search: the division of line 82 raises ZeroDivisionError when
\* its divisor is 0
DivisionRaises(score) == score.den = 0

\* Faulty variant of simple_search_exception: a division by the number of
\* documents, which raises on an empty knowledge base
simple_search_exception_empty_kb(kb, query) ==
    IF kb = <<>> THEN "ZeroDivisionError" ELSE "None"

\* the exception simple_search propagates, "None" when it returns
simple_search_exception(kb, query) ==
    IF \E i \in 1..Len(kb) :
           DivisionRaises(SearchEntry(kb[i], query).relevance_score)
    THEN "ZeroDivisionError"
    ELSE "None"

simple_search(kb, query, max_results) ==
    LET results == ScanDocuments(kb, query)
    IN  Truncate(SortByRelevance(results), max_results)

\* Faulty variant of RelevantSentences: the sentences are not stripped
RelevantSentencesUnstripped(content, query_words) ==
    SelectSeq(split_sep(content, SentenceSep),
              LAMBDA sentence :
                  \E i \in 1..Len(query_words) :
                      contains(query_words[i], lower(sentence)))

\* generate_answer: the sentences of a document that contain a query word
RelevantSentences(content, query_words) ==
    LET sentences == split_sep(content, SentenceSep)
        hits == SelectSeq(sentences,
                    LAMBDA sentence :
                        \E i \in 1..Len(query_words) :
                            contains(query_words[i], lower(sentence)))
    IN  [i \in 1..Len(hits) |-> strip(hits[i])]

SentenceTable ==
    { [content |-> d.content, query |-> q,
       relevant_sentences |-> RelevantSentences(d.content, QueryWords(q))] :
          d \in DocInputs, q \in Queries }

RelevantSentencesIn(content, query) ==
    (CHOOSE r \in SentenceTable : r.content = content /\ r.query = query
    ).relevant_sentences

RECURSIVE Extract(_, _)
\* generate_answer: the loop over search_results, giving for each document
\* with a relevant sentence its first one and its title
Extract(search_results, query) ==
    IF search_results = <<>> THEN <<>>
    ELSE LET doc == Head(search_results).document
             relevant_sentences == RelevantSentencesIn(doc.content, query)
             rest == Extract(Tail(search_results), query)
         IN  IF relevant_sentences # <<>>
             THEN <<[part |-> relevant_sentences[1], source |-> doc.title]>>
                  \o rest
             ELSE rest

\* Faulty variant of ComposeAnswer: the parts joined with ". "
ComposeAnswerSentenceJoin(answer_parts, sources_used) ==
    LET body == AnswerPrefix \o join(SentenceSep, answer_parts)
        ended == IF endswith(body, <<".">>) THEN body ELSE body \o <<".">>
    IN  ended \o SourcesPrefix \o join(SourcesSep, sources_used)

\* generate_answer: the answer text put together from the parts
ComposeAnswer(answer_parts, sources_used) ==
    LET body == AnswerPrefix \o join(<<" ">>, answer_parts)
        ended == IF endswith(body, <<".">>) THEN body ELSE body \o <<".">>
    IN  ended \o SourcesPrefix \o join(SourcesSep, sources_used)

\* generate_answer: answer_parts after the loop
AnswerParts(search_results, query) ==
    LET found == Extract(search_results, query)
    IN  [i \in 1..Len(found) |-> found[i].part]

\* generate_answer: sources_used after the loop
SourcesUsed(search_results, query) ==
    LET found == Extract(search_results, query)
    IN  [i \in 1..Len(found) |-> found[i].source]

\* Faulty variant of generate_answer: no branch for empty answer_parts
generate_answer_no_fallback(query, search_results) ==
    IF search_results = <<>> THEN NotFoundMsg
    ELSE ComposeAnswer(AnswerParts(search_results, query),
                       SourcesUsed(search_results, query))

\* Faulty variant of generate_answer: the message of the first branch is
\* returned for empty answer_parts as well
generate_answer_not_found_twice(query, search_results) ==
    IF search_results = <<>> THEN NotFoundMsg
    ELSE LET answer_parts == AnswerParts(search_results, query)
             sources_used == SourcesUsed(search_results, query)
         IN  IF Len(answer_parts) > 0
             THEN ComposeAnswer(answer_parts, sources_used)
             ELSE NotFoundMsg

generate_answer(query, search_results) ==
    IF search_results = <<>> THEN NotFoundMsg
    ELSE LET answer_parts == AnswerParts(search_results, query)
             sources_used == SourcesUsed(search_results, query)
         IN  IF Len(answer_parts) > 0
             THEN ComposeAnswer(answer_parts, sources_used)
             ELSE InsufficientMsg

\* ask_question: the titles returned under "sources"
ContextTitles(search_results) ==
    [i \in 1..Len(search_results) |-> search_results[i].document.title]

\* Variant of ask_question without the early return on an empty search
ask_question_composed(kb, question) ==
    LET search_results == simple_search(kb, question, AskMaxResults)
    IN  [question |-> question,
         answer |-> generate_answer(question, search_results),
         sources |-> ContextTitles(search_results),
         search_results |-> search_results,
         success |-> search_results # <<>>]

\* Faulty variant of ask_question: success is True in the early return
ask_question_always_success(kb, question) ==
    LET search_results == simple_search(kb, question, AskMaxResults)
    IN  IF search_results = <<>>
        THEN [question |-> question, answer |-> NoDocumentsMsg,
              sources |-> <<>>, success |-> TRUE]
        ELSE [question |-> question,
              answer |-> generate_answer(question, search_results),
              sources |-> ContextTitles(search_results),
              search_results |-> search_results,
              success |-> TRUE]

\* Faulty variant of ask_question: the answer is generated from the top
\* result alone
ask_question_top_result(kb, question) ==
    LET search_results == simple_search(kb, question, AskMaxResults)
    IN  IF search_results = <<>>
        THEN [question |-> question, answer |-> NoDocumentsMsg,
              sources |-> <<>>, success |-> FALSE]
        ELSE [question |-> question,
              answer |-> generate_answer(question,
                                         SubSeq(search_results, 1, 1)),
              sources |-> ContextTitles(search_results),
              search_results |-> search_results,
              success |-> TRUE]

\* the exception ask_question propagates: that of its search
ask_question_exception(kb, question) == simple_search_exception(kb, question)

ask_question(kb, question) ==
    LET search_results == simple_search(kb, question, AskMaxResults)
    IN  IF search_results = <<>>
        THEN [question |-> question, answer |-> NoDocumentsMsg,
              sources |-> <<>>, success |-> FALSE]
        ELSE [question |-> question,
              answer |-> generate_answer(question, search_results),
              sources |-> ContextTitles(search_results),
              search_results |-> search_results,
              success |-> TRUE]

---------------------------------------------------------------------------
(* The state machine: one action per method call *)

\* run_student_demo is not running
LoopIdle ==
    /\ pc = "not_started"
    /\ user_question = <<>>
    /\ asked = 0
    /\ exc = "None"

\* MiniSemanticSearch.__init__
EngineInit ==
    /\ documents = <<>>
    /\ embeddings = <<>>
    /\ index = <<>>

Init ==
    /\ knowledge_base = <<>>
    /\ document_count = 0
    /\ op = "init"
    /\ args = <<>>
    /\ ret = <<>>
    /\ raised = "None"
    /\ LoopIdle
    /\ EngineInit

AddDocument ==
    \E d \in DocInputs :
        /\ Len(knowledge_base) < MaxDocs
        /\ LET doc_id == document_count
               document == NewDocument(doc_id, d.title, d.content, d.category)
           IN  /\ knowledge_base' = AppendDocument(knowledge_base, document)
               /\ document_count' = document_count + 1
               /\ ret' = doc_id
        /\ op' = "add_document"
        /\ args' = d
        /\ raised' = "None"
        /\ UNCHANGED <<loop_vars, engine_vars>>

SimpleSearch ==
    \E query \in Queries, max_results \in MaxResultsInputs :
        /\ op' = "simple_search"
        /\ args' = [query |-> query, max_results |-> max_results]
        /\ raised' = simple_search_exception(knowledge_base, query)
        /\ ret' = IF raised' = "None"
                  THEN simple_search(knowledge_base, query, max_results)
                  ELSE <<>>
        /\ UNCHANGED <<knowledge_base, document_count>>
        /\ UNCHANGED <<loop_vars, engine_vars>>

GenerateAnswer ==
    \E query \in Queries, searched \in Queries :
        LET search_results ==
                simple_search(knowledge_base, searched, AskMaxResults)
        IN  /\ op' = "generate_answer"
            /\ args' = [query |-> query, search_results |-> search_results]
            /\ ret' = generate_answer(query, search_results)
            /\ raised' = "None"
            /\ UNCHANGED <<knowledge_base, document_count>>
            /\ UNCHANGED <<loop_vars, engine_vars>>

AskQuestion ==
    \E question \in Queries :
        /\ op' = "ask_question"
        /\ args' = [question |-> question]
        /\ raised' = ask_question_exception(knowledge_base, question)
        /\ ret' = IF raised' = "None"
                  THEN ask_question(knowledge_base, question)
                  ELSE <<>>
        /\ UNCHANGED <<knowledge_base, document_count>>
        /\ UNCHANGED <<loop_vars, engine_vars>>

ShowKnowledgeBase ==
    /\ op' = "show_knowledge_base"
    /\ args' = <<>>
    /\ ret' = <<>>
    /\ raised' = "None"
    /\ UNCHANGED <<knowledge_base, document_count>>
    /\ UNCHANGED <<loop_vars, engine_vars>>

Next ==
    \/ AddDocument
    \/ SimpleSearch
    \/ GenerateAnswer
    \/ AskQuestion
    \/ ShowKnowledgeBase

Spec == Init /\ [][Next]_vars

---------------------------------------------------------------------------
(* run_student_demo: the question loop *)

\* create_student_knowledge_base: the documents added to the knowledge base
DemoDocuments ==
    <<
       [title |->
         <<"W","h","a","t"," ","i","s"," ","P","y","t","h","o","n","?">>,
        content |->
         <<"P","y","t","h","o","n"," ","i","s"," ","a"," ","p","r","o","g",
           "r","a","m","m","i","n","g"," ","l","a","n","g","u","a","g","e",
           " ","t","h","a","t"," ","i","s"," ","e","a","s","y"," ","t","o",
           " ","l","e","a","r","n"," ","a","n","d"," ","p","o","w","e","r",
           "f","u","l"," ","t","o"," ","u","s","e","."," ","I","t"," ","w",
           "a","s"," ","c","r","e","a","t","e","d"," ","b","y"," ","G","u",
           "i","d","o"," ","v","a","n"," ","R","o","s","s","u","m"," ","i",
           "n"," ","1","9","9","1","."," ","P","y","t","h","o","n"," ","i",
           "s"," ","g","r","e","a","t"," ","f","o","r"," ","b","e","g","i",
           "n","n","e","r","s"," ","b","e","c","a","u","s","e"," ","i","t",
           "s"," ","s","y","n","t","a","x"," ","i","s"," ","s","i","m","p",
           "l","e"," ","a","n","d"," ","r","e","a","d","a","b","l","e",".",
           " ","Y","o","u"," ","c","a","n"," ","u","s","e"," ","P","y","t",
           "h","o","n"," ","f","o","r"," ","w","e","b"," ","d","e","v","e",
           "l","o","p","m","e","n","t",","," ","d","a","t","a"," ","s","c",
           "i","e","n","c","e",","," ","a","r","t","i","f","i","c","i","a",
           "l"," ","i","n","t","e","l","l","i","g","e","n","c","e",","," ",
           "a","n","d"," ","a","u","t","o","m","a","t","i","o","n","."," ",
           "M","a","n","y"," ","c","o","m","p","a","n","i","e","s"," ","l",
           "i","k","e"," ","G","o","o","g","l","e",","," ","N","e","t","f",
           "l","i","x",","," ","a","n","d"," ","I","n","s","t","a","g","r",
           "a","m"," ","u","s","e"," ","P","y","t","h","o","n",".">>,
        category |->
         <<"p","r","o","g","r","a","m","m","i","n","g">>],
       [title |->
         <<"H","o","w"," ","M","a","c","h","i","n","e"," ","L","e","a","r",
           "n","i","n","g"," ","W","o","r","k","s">>,
        content |->
         <<"M","a","c","h","i","n","e"," ","l","e","a","r","n","i","n","g",
           " ","i","s"," ","a"," ","w","a","y"," ","t","o"," ","t","e","a",
           "c","h"," ","c","o","m","p","u","t","e","r","s"," ","t","o"," ",
           "l","e","a","r","n"," ","p","a","t","t","e","r","n","s"," ","f",
           "r","o","m"," ","d","a","t","a"," ","w","i","t","h","o","u","t",
           " ","e","x","p","l","i","c","i","t","l","y"," ","p","r","o","g",
           "r","a","m","m","i","n","g"," ","e","v","e","r","y"," ","r","u",
           "l","e","."," ","I","n","s","t","e","a","d"," ","o","f"," ","w",
           "r","i","t","i","n","g"," ","s","p","e","c","i","f","i","c"," ",
           "i","n","s","t","r","u","c","t","i","o","n","s",","," ","w","e",
           " ","s","h","o","w"," ","t","h","e"," ","c","o","m","p","u","t",
           "e","r"," ","l","o","t","s"," ","o","f"," ","e","x","a","m","p",
           "l","e","s"," ","a","n","d"," ","l","e","t"," ","i","t"," ","f",
           "i","g","u","r","e"," ","o","u","t"," ","t","h","e"," ","p","a",
           "t","t","e","r","n","s","."," ","F","o","r"," ","e","x","a","m",
           "p","l","e",","," ","t","o"," ","t","e","a","c","h"," ","a"," ",
           "c","o","m","p","u","t","e","r"," ","t","o"," ","r","e","c","o",
           "g","n","i","z","e"," ","c","a","t","s"," ","i","n"," ","p","h",
           "o","t","o","s",","," ","w","e"," ","s","h","o","w"," ","i","t",
           " ","t","h","o","u","s","a","n","d","s"," ","o","f"," ","c","a",
           "t"," ","p","i","c","t","u","r","e","s"," ","a","n","d"," ","i",
           "t"," ","l","e","a","r","n","s"," ","w","h","a","t"," ","f","e",
           "a","t","u","r","e","s"," ","m","a","k","e"," ","a"," ","c","a",
           "t",".">>,
        category |->
         <<"A","I">>],
       [title |->
         <<"W","h","a","t"," ","a","r","e"," ","V","e","c","t","o","r"," ",
           "E","m","b","e","d","d","i","n","g","s","?">>,
        content |->
         <<"V","e","c","t","o","r"," ","e","m","b","e","d","d","i","n","g",
           "s"," ","a","r","e"," ","a"," ","w","a","y"," ","t","o"," ","c",
           "o","n","v","e","r","t"," ","w","o","r","d","s",","," ","s","e",
           "n","t","e","n","c","e","s",","," ","o","r"," ","a","n","y"," ",
           "t","e","x","t"," ","i","n","t","o"," ","n","u","m","b","e","r",
           "s"," ","t","h","a","t"," ","c","o","m","p","u","t","e","r","s",
           " ","c","a","n"," ","u","n","d","e","r","s","t","a","n","d",".",
           " ","T","h","i","n","k"," ","o","f"," ","i","t"," ","l","i","k",
           "e"," ","t","r","a","n","s","l","a","t","i","n","g"," ","h","u",
           "m","a","n"," ","l","a","n","g","u","a","g","e"," ","i","n","t",
           "o"," ","m","a","t","h","."," ","S","i","m","i","l","a","r"," ",
           "w","o","r","d","s"," ","g","e","t"," ","s","i","m","i","l","a",
           "r"," ","n","u","m","b","e","r","s","."," ","F","o","r"," ","e",
           "x","a","m","p","l","e",","," ","'","k","i","n","g","'"," ","a",
           "n","d"," ","'","q","u","e","e","n","'"," ","w","o","u","l","d",
           " ","h","a","v","e"," ","s","i","m","i","l","a","r"," ","v","e",
           "c","t","o","r"," ","e","m","b","e","d","d","i","n","g","s"," ",
           "b","e","c","a","u","s","e"," ","t","h","e","y"," ","a","r","e",
           " ","b","o","t","h"," ","r","o","y","a","l"," ","t","i","t","l",
           "e","s","."," ","T","h","i","s"," ","h","e","l","p","s"," ","c",
           "o","m","p","u","t","e","r","s"," ","u","n","d","e","r","s","t",
           "a","n","d"," ","m","e","a","n","i","n","g"," ","a","n","d"," ",
           "r","e","l","a","t","i","o","n","s","h","i","p","s"," ","b","e",
           "t","w","e","e","n"," ","w","o","r","d","s",".">>,
        category |->
         <<"A","I">>],
       [title |->
         <<"C","l","i","m","a","t","e"," ","C","h","a","n","g","e"," ","B",
           "a","s","i","c","s">>,
        content |->
         <<"C","l","i","m","a","t","e"," ","c","h","a","n","g","e"," ","r",
           "e","f","e","r","s"," ","t","o"," ","l","o","n","g","-","t","e",
           "r","m"," ","c","h","a","n","g","e","s"," ","i","n"," ","E","a",
           "r","t","h","'","s"," ","w","e","a","t","h","e","r"," ","p","a",
           "t","t","e","r","n","s"," ","a","n","d"," ","t","e","m","p","e",
           "r","a","t","u","r","e","s","."," ","T","h","e"," ","m","a","i",
           "n"," ","c","a","u","s","e"," ","i","s"," ","h","u","m","a","n",
           " ","a","c","t","i","v","i","t","i","e","s"," ","t","h","a","t",
           " ","r","e","l","e","a","s","e"," ","g","r","e","e","n","h","o",
           "u","s","e"," ","g","a","s","e","s"," ","l","i","k","e"," ","c",
           "a","r","b","o","n"," ","d","i","o","x","i","d","e"," ","i","n",
           "t","o"," ","t","h","e"," ","a","t","m","o","s","p","h","e","r",
           "e","."," ","T","h","e","s","e"," ","g","a","s","e","s"," ","t",
           "r","a","p"," ","h","e","a","t"," ","f","r","o","m"," ","t","h",
           "e"," ","s","u","n",","," ","m","a","k","i","n","g"," ","E","a",
           "r","t","h"," ","w","a","r","m","e","r","."," ","T","h","i","s",
           " ","l","e","a","d","s"," ","t","o"," ","m","e","l","t","i","n",
           "g"," ","i","c","e"," ","c","a","p","s",","," ","r","i","s","i",
           "n","g"," ","s","e","a"," ","l","e","v","e","l","s",","," ","a",
           "n","d"," ","m","o","r","e"," ","e","x","t","r","e","m","e"," ",
           "w","e","a","t","h","e","r"," ","e","v","e","n","t","s"," ","l",
           "i","k","e"," ","h","u","r","r","i","c","a","n","e","s"," ","a",
           "n","d"," ","d","r","o","u","g","h","t","s",".">>,
        category |->
         <<"s","c","i","e","n","c","e">>],
       [title |->
         <<"H","o","w"," ","t","h","e"," ","I","n","t","e","r","n","e","t",
           " ","W","o","r","k","s">>,
        content |->
         <<"T","h","e"," ","i","n","t","e","r","n","e","t"," ","i","s"," ",
           "a"," ","g","l","o","b","a","l"," ","n","e","t","w","o","r","k",
           " ","o","f"," ","c","o","n","n","e","c","t","e","d"," ","c","o",
           "m","p","u","t","e","r","s"," ","t","h","a","t"," ","c","a","n",
           " ","s","h","a","r","e"," ","i","n","f","o","r","m","a","t","i",
           "o","n","."," ","W","h","e","n"," ","y","o","u"," ","v","i","s",
           "i","t"," ","a"," ","w","e","b","s","i","t","e",","," ","y","o",
           "u","r"," ","c","o","m","p","u","t","e","r"," ","s","e","n","d",
           "s"," ","a"," ","r","e","q","u","e","s","t"," ","t","h","r","o",
           "u","g","h"," ","y","o","u","r"," ","i","n","t","e","r","n","e",
           "t"," ","p","r","o","v","i","d","e","r"," ","t","o"," ","s","e",
           "r","v","e","r","s"," ","a","r","o","u","n","d"," ","t","h","e",
           " ","w","o","r","l","d","."," ","T","h","e","s","e"," ","s","e",
           "r","v","e","r","s"," ","s","t","o","r","e"," ","w","e","b","s",
           "i","t","e"," ","d","a","t","a"," ","a","n","d"," ","s","e","n",
           "d"," ","i","t"," ","b","a","c","k"," ","t","o"," ","y","o","u",
           "r"," ","c","o","m","p","u","t","e","r","."," ","T","h","e"," ",
           "d","a","t","a"," ","t","r","a","v","e","l","s"," ","t","h","r",
           "o","u","g","h"," ","c","a","b","l","e","s",","," ","f","i","b",
           "e","r"," ","o","p","t","i","c","s",","," ","a","n","d"," ","w",
           "i","r","e","l","e","s","s"," ","s","i","g","n","a","l","s"," ",
           "t","o"," ","r","e","a","c","h"," ","y","o","u"," ","i","n"," ",
           "s","e","c","o","n","d","s",".">>,
        category |->
         <<"t","e","c","h","n","o","l","o","g","y">>],
       [title |->
         <<"P","h","o","t","o","s","y","n","t","h","e","s","i","s"," ","E",
           "x","p","l","a","i","n","e","d">>,
        content |->
         <<"P","h","o","t","o","s","y","n","t","h","e","s","i","s"," ","i",
           "s"," ","h","o","w"," ","p","l","a","n","t","s"," ","m","a","k",
           "e"," ","t","h","e","i","r"," ","o","w","n"," ","f","o","o","d",
           " ","u","s","i","n","g"," ","s","u","n","l","i","g","h","t",",",
           " ","w","a","t","e","r",","," ","a","n","d"," ","c","a","r","b",
           "o","n"," ","d","i","o","x","i","d","e"," ","f","r","o","m"," ",
           "t","h","e"," ","a","i","r","."," ","P","l","a","n","t","s"," ",
           "h","a","v","e"," ","s","p","e","c","i","a","l"," ","c","e","l",
           "l","s"," ","c","a","l","l","e","d"," ","c","h","l","o","r","o",
           "p","l","a","s","t","s"," ","t","h","a","t"," ","c","o","n","t",
           "a","i","n"," ","c","h","l","o","r","o","p","h","y","l","l",",",
           " ","w","h","i","c","h"," ","c","a","p","t","u","r","e","s"," ",
           "s","u","n","l","i","g","h","t","."," ","T","h","e"," ","p","l",
           "a","n","t"," ","c","o","m","b","i","n","e","s"," ","t","h","e",
           " ","s","u","n","l","i","g","h","t"," ","e","n","e","r","g","y",
           " ","w","i","t","h"," ","w","a","t","e","r"," ","f","r","o","m",
           " ","r","o","o","t","s"," ","a","n","d"," ","c","a","r","b","o",
           "n"," ","d","i","o","x","i","d","e"," ","f","r","o","m"," ","a",
           "i","r"," ","t","o"," ","c","r","e","a","t","e"," ","g","l","u",
           "c","o","s","e"," ","(","s","u","g","a","r",")"," ","f","o","r",
           " ","e","n","e","r","g","y"," ","a","n","d"," ","o","x","y","g",
           "e","n"," ","a","s"," ","a"," ","b","y","p","r","o","d","u","c",
           "t",".">>,
        category |->
         <<"b","i","o","l","o","g","y">>],
       [title |->
         <<"S","o","c","i","a","l"," ","M","e","d","i","a"," ","a","n","d",
           " ","M","e","n","t","a","l"," ","H","e","a","l","t","h">>,
        content |->
         <<"S","o","c","i","a","l"," ","m","e","d","i","a"," ","c","a","n",
           " ","a","f","f","e","c","t"," ","m","e","n","t","a","l"," ","h",
           "e","a","l","t","h"," ","i","n"," ","b","o","t","h"," ","p","o",
           "s","i","t","i","v","e"," ","a","n","d"," ","n","e","g","a","t",
           "i","v","e"," ","w","a","y","s","."," ","P","o","s","i","t","i",
           "v","e"," ","e","f","f","e","c","t","s"," ","i","n","c","l","u",
           "d","e"," ","s","t","a","y","i","n","g"," ","c","o","n","n","e",
           "c","t","e","d"," ","w","i","t","h"," ","f","r","i","e","n","d",
           "s"," ","a","n","d"," ","f","i","n","d","i","n","g"," ","s","u",
           "p","p","o","r","t","i","v","e"," ","c","o","m","m","u","n","i",
           "t","i","e","s","."," ","N","e","g","a","t","i","v","e"," ","e",
           "f","f","e","c","t","s"," ","c","a","n"," ","i","n","c","l","u",
           "d","e"," ","c","o","m","p","a","r","i","s","o","n"," ","w","i",
           "t","h"," ","o","t","h","e","r","s",","," ","c","y","b","e","r",
           "b","u","l","l","y","i","n","g",","," ","a","n","d"," ","a","d",
           "d","i","c","t","i","o","n"," ","t","o"," ","l","i","k","e","s",
           " ","a","n","d"," ","c","o","m","m","e","n","t","s","."," ","I",
           "t","'","s"," ","i","m","p","o","r","t","a","n","t"," ","t","o",
           " ","u","s","e"," ","s","o","c","i","a","l"," ","m","e","d","i",
           "a"," ","m","i","n","d","f","u","l","l","y"," ","a","n","d"," ",
           "t","a","k","e"," ","b","r","e","a","k","s"," ","w","h","e","n",
           " ","n","e","e","d","e","d",".">>,
        category |->
         <<"h","e","a","l","t","h">>],
       [title |->
         <<"S","t","u","d","y"," ","T","i","p","s"," ","f","o","r"," ","S",
           "t","u","d","e","n","t","s">>,
        content |->
         <<"E","f","f","e","c","t","i","v","e"," ","s","t","u","d","y","i",
           "n","g"," ","i","n","v","o","l","v","e","s"," ","s","e","v","e",
           "r","a","l"," ","s","t","r","a","t","e","g","i","e","s","."," ",
           "F","i","r","s","t",","," ","c","r","e","a","t","e"," ","a"," ",
           "q","u","i","e","t"," ","s","t","u","d","y"," ","s","p","a","c",
           "e"," ","f","r","e","e"," ","f","r","o","m"," ","d","i","s","t",
           "r","a","c","t","i","o","n","s","."," ","U","s","e"," ","a","c",
           "t","i","v","e"," ","l","e","a","r","n","i","n","g"," ","t","e",
           "c","h","n","i","q","u","e","s"," ","l","i","k","e"," ","s","u",
           "m","m","a","r","i","z","i","n","g"," ","i","n","f","o","r","m",
           "a","t","i","o","n"," ","i","n"," ","y","o","u","r"," ","o","w",
           "n"," ","w","o","r","d","s"," ","o","r"," ","t","e","a","c","h",
           "i","n","g"," ","c","o","n","c","e","p","t","s"," ","t","o"," ",
           "s","o","m","e","o","n","e"," ","e","l","s","e","."," ","T","a",
           "k","e"," ","r","e","g","u","l","a","r"," ","b","r","e","a","k",
           "s"," ","u","s","i","n","g"," ","t","h","e"," ","P","o","m","o",
           "d","o","r","o"," ","t","e","c","h","n","i","q","u","e"," ","(",
           "2","5"," ","m","i","n","u","t","e","s"," ","s","t","u","d","y",
           ","," ","5"," ","m","i","n","u","t","e"," ","b","r","e","a","k",
           ")","."," ","P","r","a","c","t","i","c","e"," ","s","p","a","c",
           "e","d"," ","r","e","p","e","t","i","t","i","o","n"," ","b","y",
           " ","r","e","v","i","e","w","i","n","g"," ","m","a","t","e","r",
           "i","a","l"," ","m","u","l","t","i","p","l","e"," ","t","i","m",
           "e","s"," ","o","v","e","r"," ","s","e","v","e","r","a","l"," ",
           "d","a","y","s",".">>,
        category |->
         <<"e","d","u","c","a","t","i","o","n">>]
    >>

\* len(content.split()) counted by the places where a word starts: the
\* same number as Len(split(content)), without a recursion over the
\* characters of a long text
WordStarts(s) ==
    {i \in 1..Len(s) : s[i] \notin Whitespace
                        /\ (i = 1 \/ s[i - 1] \in Whitespace)}

\* the knowledge base create_student_knowledge_base returns: add_document
\* for every entry of the list, in order
DemoKnowledgeBase ==
    [i \in 1..Len(DemoDocuments) |->
        [id |-> i - 1, title |-> DemoDocuments[i].title,
         content |-> DemoDocuments[i].content,
         category |-> DemoDocuments[i].category,
         word_count |-> Cardinality(WordStarts(DemoDocuments[i].content))]]

\* the words that end the loop
Sentinels ==
    { <<"q","u","i","t">>,
      <<"e","x","i","t">>,
      <<"q">>,
      <<"d","o","n","e">> }

\* the lines input() returns
Lines ==
    { <<"q","u","i","t">>,
      <<" ","Q","u","i","t"," ">>,
      <<"E","X","I","T">>,
      <<"q">>,
      <<"d","o","n","e","\t">>,
      <<"Q">>,
      <<>>,
      <<" "," ","\t">>,
      <<"q","u","i","t"," ","n","o","w">>,
      <<"r","u","s","t">>,
      <<"p","y","t","h","o","n"," ","l","a","n","g","u","a","g","e">> }

MaxAsked == 3

\* Faulty variant of IsSentinel: the line is compared as typed
IsSentinelAsTyped(question) == question \in Sentinels

\* user_question.lower() in ['quit', 'exit', 'q', 'done']
IsSentinel(question) == lower(question) \in Sentinels

\* where the loop goes from the tests on the line read
AfterCheck(question) ==
    IF IsSentinel(question) THEN "exited"
    ELSE IF question = <<>> THEN "input"
    ELSE "answering"

\* where the loop goes from the call of ask_question, by what the call
\* raised: the two except clauses
AfterAnswer(outcome) ==
    IF outcome = "None" THEN "input"
    ELSE IF outcome = "KeyboardInterrupt" THEN "exited"
    ELSE "handler"

\* the state when the loop is entered
LoopInit ==
    /\ knowledge_base = DemoKnowledgeBase
    /\ document_count = Len(DemoDocuments)
    /\ op = "run_student_demo"
    /\ args = <<>>
    /\ ret = <<>>
    /\ raised = "None"
    /\ pc = "input"
    /\ user_question = <<>>
    /\ asked = 0
    /\ exc = "None"
    /\ EngineInit

\* input() returns a line, which is stripped
ReadLine ==
    /\ pc = "input"
    /\ \E line \in Lines : user_question' = strip(line)
    /\ pc' = "check"
    /\ exc' = "None"
    /\ UNCHANGED <<asked, knowledge_base, document_count, op, args, ret,
                   raised, engine_vars>>

\* input() raises EOFError at the end of the input
ReadEndOfInput ==
    /\ pc = "input"
    /\ exc' = "EOFError"
    /\ pc' = "handler"
    /\ UNCHANGED <<user_question, asked, knowledge_base, document_count, op,
                   args, ret, raised, engine_vars>>

\* the tests of lines 341 and 344
CheckLine ==
    /\ pc = "check"
    /\ pc' = AfterCheck(user_question)
    /\ UNCHANGED <<user_question, asked, exc, knowledge_base, document_count,
                   op, args, ret, raised, engine_vars>>

\* rag.ask_question(user_question): it leaves the knowledge base as it is
\* and its result is not read; it returns or raises
Answer ==
    /\ pc = "answering"
    /\ asked < MaxAsked
    /\ asked' = asked + 1
    /\ \E outcome \in {"None", "Exception", "KeyboardInterrupt"} :
           /\ exc' = outcome
           /\ pc' = AfterAnswer(outcome)
    /\ UNCHANGED <<user_question, knowledge_base, document_count, op, args,
                   ret, raised, engine_vars>>

\* except Exception: the error is reported and the loop goes on
Handler ==
    /\ pc = "handler"
    /\ pc' = "input"
    /\ UNCHANGED <<user_question, asked, exc, knowledge_base, document_count,
                   op, args, ret, raised, engine_vars>>

\* a KeyboardInterrupt outside the call of ask_question: in the try body it
\* is caught and breaks the loop, in the handler it leaves the function
Interrupt ==
    /\ pc \in {"input", "check", "answering", "handler"}
    /\ exc' = "KeyboardInterrupt"
    /\ pc' = "exited"
    /\ UNCHANGED <<user_question, asked, knowledge_base, document_count, op,
                   args, ret, raised, engine_vars>>

LoopNext ==
    \/ ReadLine
    \/ ReadEndOfInput
    \/ CheckLine
    \/ Answer
    \/ Handler
    \/ Interrupt

LoopSpec == LoopInit /\ [][LoopNext]_vars

---------------------------------------------------------------------------
(* MiniSemanticSearch: documents, embeddings and index *)

MaxIndexed == 3

\* the doc_id arguments of add_document
DocIdInputs ==
    { <<"d","o","c","1">>,
      <<"d","o","c","2">> }

\* the title and content arguments of add_document
EngineTextInputs ==
    { [title |-> TitleA, content |-> ContentA],
      [title |-> TitleB, content |-> ContentB] }

\* the metadata argument of add_document: None is the empty sequence, a
\* dict is a sequence of one element, the set of its items
MetadataInputs ==
    { <<>>,
      << {} >>,
      << { <<<<"c","a","t","e","g","o","r","y">>, <<"p","r","o","g","r","a","m","m","i","n","g">>>> } >> }

\* if metadata is None: metadata = {}
MetadataOrEmpty(metadata) == IF metadata = <<>> THEN {} ELSE metadata[1]

\* f"{title}. {content}"
FullText(title, content) == title \o <<".", " ">> \o content

\* self.nlp(full_text).vector: a value that the text determines
Embed(full_text) == [vector_of |-> full_text]

\* doc_info; indexed_at, the time of the call, is left out
DocInfo(doc_id, title, content, metadata) ==
    [id |-> doc_id, title |-> title, content |-> content,
     full_text |-> FullText(title, content),
     metadata |-> MetadataOrEmpty(metadata),
     word_count |-> Len(split(content))]

\* Faulty variant of IndexAfterAdd: a doc_id already in the index keeps
\* its position (setdefault)
IndexKeepFirst(idx, doc_id, position) ==
    [k \in DOMAIN idx \cup {doc_id} |->
        IF k \in DOMAIN idx THEN idx[k] ELSE position]

\* self.index[doc_id] = position
IndexAfterAdd(idx, doc_id, position) ==
    [k \in DOMAIN idx \cup {doc_id} |->
        IF k = doc_id THEN position ELSE idx[k]]

\* add_document with a title and a content that are strings
EngineAddDocument ==
    \E doc_id \in DocIdInputs, text \in EngineTextInputs,
       metadata \in MetadataInputs :
        /\ Len(documents) < MaxIndexed
        /\ documents' = Append(documents,
               DocInfo(doc_id, text.title, text.content, metadata))
        /\ embeddings' = Append(embeddings,
               Embed(FullText(text.title, text.content)))
        /\ index' = IndexAfterAdd(index, doc_id, Len(documents') - 1)
        /\ op' = "add_document"
        /\ args' = <<doc_id, text.title, text.content, metadata>>
        /\ ret' = <<>>
        /\ raised' = "None"
        /\ UNCHANGED <<knowledge_base, document_count, loop_vars>>

\* add_document with content None: content.split() raises AttributeError
\* in the doc_info literal, before the appends
EngineAddDocumentFails ==
    \E doc_id \in DocIdInputs, text \in EngineTextInputs,
       metadata \in MetadataInputs :
        /\ op' = "add_document"
        /\ args' = <<doc_id, text.title, <<>>, metadata>>
        /\ ret' = <<>>
        /\ raised' = "AttributeError"
        /\ UNCHANGED <<engine_vars, knowledge_base, document_count,
                       loop_vars>>

EngineNext ==
    \/ EngineAddDocument
    \/ EngineAddDocumentFails

EngineSpec == Init /\ [][EngineNext]_vars

---------------------------------------------------------------------------
(* Properties *)

StartsWith(s, prefix) ==
    Len(s) >= Len(prefix) /\ SubSeq(s, 1, Len(prefix)) = prefix

\* the terms of a query, as the code tokenises it
Terms(query) == split(lower(query))

\* term is a lower-case substring of text
Occurs(term, text) == contains(term, lower(text))

\* the entries simple_search would return with no limit on their number
AllMatches(query) ==
    simple_search(knowledge_base, query, Len(knowledge_base))

ScenarioAnswerClaimed ==
    <<"B","a","s","e","d"," ","o","n"," ","m","y"," ","k","n","o","w","l","e",
      "d","g","e"," ","b","a","s","e",":"," ","P","y","t","h","o","n"," ","i",
      "s"," ","a"," ","l","a","n","g","u","a","g","e",".">>

ScenarioAnswerBody ==
    <<"B","a","s","e","d"," ","o","n"," ","m","y"," ","k","n","o","w","l","e",
      "d","g","e"," ","b","a","s","e",":"," ","P","y","t","h","o","n"," ","i",
      "s"," ","a"," ","l","a","n","g","u","a","g","e"," ","P","y","t","h","o",
      "n","s"," ","a","r","e"," ","s","n","a","k","e","s"," ","f","o","u","n",
      "d"," ","i","n"," ","f","o","r","e","s","t","s",".">>

ScenarioSourcesLine ==
    <<"\n","\n","U+1F4DA"," ","S","o","u","r","c","e","s",":"," ","P","y","t",
      "h","o","n"," ","B","a","s","i","c","s",","," ","S","n","a","k","e","s">>

\* the knowledge base of the scenario: Doc A, then Doc B
ScenarioKnowledgeBase ==
    /\ Len(knowledge_base) = 2
    /\ knowledge_base[1].title = TitleA
    /\ knowledge_base[1].content = ContentA
    /\ knowledge_base[2].title = TitleB
    /\ knowledge_base[2].content = ContentB

\* generate_answer has just been applied to the scenario's search results
ScenarioAnswered ==
    /\ ScenarioKnowledgeBase
    /\ op = "generate_answer"
    /\ args.query = QueryScenario
    /\ args.search_results = simple_search(knowledge_base, QueryScenario, 2)

\* C1 as stated: for a query with at least one term and every integer
\* max_results, simple_search returns at most max_results entries.
C1_AtMostMaxResultsAnyInteger ==
    (op = "simple_search" /\ Terms(args.query) # <<>>)
        => Len(ret) <= args.max_results

\* C1 amended: for a query with at least one term and every max_results
\* that is not negative, simple_search returns at most max_results entries.
C1_AtMostMaxResults ==
    (op = "simple_search" /\ Terms(args.query) # <<>>
        /\ args.max_results >= 0)
        => Len(ret) <= args.max_results

\* a search whose limit cut the list of matching documents short
C1_Witness ==
    /\ op = "simple_search"
    /\ args.max_results = 1
    /\ Len(ret) = 1
    /\ Len(AllMatches(args.query)) = 2

\* C2 as stated: the score of a returned document is the number of
\* distinct query terms occurring in its title and content, divided by the
\* number of query terms with duplicates.
C2_ScoreCountsDistinctTerms ==
    op = "simple_search" =>
        \A i \in 1..Len(ret) :
            LET terms == Terms(args.query)
                d == ret[i].document
                text == d.title \o <<" ">> \o d.content
                distinct == { terms[k] : k \in { k \in 1..Len(terms) :
                                                  Occurs(terms[k], text) } }
            IN  ret[i].relevance_score.num * Len(terms)
                    = Cardinality(distinct) * ret[i].relevance_score.den

\* C2 amended: the score of a returned document is the number of query
\* terms, each repetition of a term counted, that occur in its title and
\* content, divided by the number of query terms with duplicates.
C2_ScoreCountsEveryTerm ==
    op = "simple_search" =>
        \A i \in 1..Len(ret) :
            LET terms == Terms(args.query)
                d == ret[i].document
                text == d.title \o <<" ">> \o d.content
                hits == { k \in 1..Len(terms) : Occurs(terms[k], text) }
            IN  ret[i].relevance_score.num * Len(terms)
                    = Cardinality(hits) * ret[i].relevance_score.den

\* a search with a query that repeats a term found a document
C2_Witness ==
    /\ op = "simple_search"
    /\ args.query = QueryRepeated
    /\ ret # <<>>

\* C3 as stated: every returned document has a query term in its content.
C3_ContentHasATerm ==
    op = "simple_search" =>
        \A i \in 1..Len(ret) :
            \E k \in 1..Len(Terms(args.query)) :
                Occurs(Terms(args.query)[k], ret[i].document.content)

\* C3 amended: every returned document has a query term in its title or in
\* its content; a document with none in either never appears.
C3_TitleOrContentHasATerm ==
    op = "simple_search" =>
        \A i \in 1..Len(ret) :
            \E k \in 1..Len(Terms(args.query)) :
                \/ Occurs(Terms(args.query)[k], ret[i].document.title)
                \/ Occurs(Terms(args.query)[k], ret[i].document.content)

\* a search that returned every match and left out a document with no
\* query term in its title or content
C3_Witness ==
    /\ op = "simple_search"
    /\ args.max_results >= Len(knowledge_base)
    /\ ret # <<>>
    /\ \E j \in 1..Len(knowledge_base) :
           /\ \A i \in 1..Len(ret) : ret[i].document # knowledge_base[j]
           /\ \A k \in 1..Len(Terms(args.query)) :
                  /\ ~Occurs(Terms(args.query)[k], knowledge_base[j].title)
                  /\ ~Occurs(Terms(args.query)[k], knowledge_base[j].content)

\* C4 as stated: the scenario's answer begins "Based on my knowledge base:
\* Python is a language." and ends with the sources line naming both titles.
C4_ScenarioAnswerAsStated ==
    ScenarioAnswered =>
        /\ StartsWith(ret, ScenarioAnswerClaimed)
        /\ endswith(ret, ScenarioSourcesLine)

\* C4 amended: the scenario's answer begins "Based on my knowledge base:
\* Python is a language Pythons are snakes found in forests." (the split on
\* ". " drops the period after "language") and ends with the sources line
\* naming both titles.
C4_ScenarioAnswer ==
    ScenarioAnswered =>
        /\ StartsWith(ret, ScenarioAnswerBody)
        /\ endswith(ret, ScenarioSourcesLine)

C4_Witness == ScenarioAnswered /\ Len(args.search_results) = 2

C6_SourcesAreContributors ==
    op = "ask_question" =>
        IF ret.success
        THEN ret.sources = SourcesUsed(ret.search_results, args.question)
        ELSE ret.sources = <<>>

\* C7: the returned entries are in non-increasing order of score, and
\* entries of equal score are in the order of insertion of their documents.
C7_SortedAndStable ==
    op = "simple_search" =>
        \A i, j \in 1..Len(ret) :
            i < j =>
                /\ ~ScoreLess(ret[i].relevance_score, ret[j].relevance_score)
                /\ ScoreEq(ret[i].relevance_score, ret[j].relevance_score)
                     => \E a, b \in 1..Len(knowledge_base) :
                            /\ a < b
                            /\ knowledge_base[a] = ret[i].document
                            /\ knowledge_base[b] = ret[j].document

\* a search returned two documents of equal score
C7_Witness ==
    /\ op = "simple_search"
    /\ Len(ret) >= 2
    /\ ScoreEq(ret[1].relevance_score, ret[2].relevance_score)

\* C8: every returned score is greater than 0 and at most 1, and every
\* returned entry has at least one matched term.
C8_ScoreInRange ==
    op = "simple_search" =>
        \A i \in 1..Len(ret) :
            /\ ret[i].relevance_score.den > 0
            /\ ret[i].relevance_score.num > 0
            /\ ret[i].relevance_score.num <= ret[i].relevance_score.den
            /\ ret[i].match_count > 0

\* a search returned a document that has every query term, while a
\* document of the knowledge base was left out
C8_Witness ==
    /\ op = "simple_search"
    /\ Len(Terms(args.query)) >= 2
    /\ Len(ret) = 1
    /\ ret[1].relevance_score.num = ret[1].relevance_score.den
    /\ Len(knowledge_base) = 2
    /\ args.max_results >= 2

\* C9: the i-th inserted document (from 0) has identifier i, add_document
\* returns the identifier of the document it added, and document_count is
\* the number of documents.
C9_Identifiers ==
    /\ document_count = Len(knowledge_base)
    /\ \A i \in 1..Len(knowledge_base) : knowledge_base[i].id = i - 1
    /\ \A i, j \in 1..Len(knowledge_base) :
           i # j => knowledge_base[i].id # knowledge_base[j].id
    /\ op = "add_document" =>
           /\ ret = Len(knowledge_base) - 1
           /\ knowledge_base[Len(knowledge_base)].id = ret

\* a second document has just been added
C9_Witness ==
    /\ op = "add_document"
    /\ Len(knowledge_base) = 2
    /\ ret = 1

\* C10: add_document appends one document built from its arguments and
\* leaves the earlier ones as they were; every other operation leaves
\* knowledge_base and document_count unchanged.
C10_AppendOnly ==
    [][IF op' = "add_document"
       THEN /\ Len(knowledge_base') = Len(knowledge_base) + 1
            /\ SubSeq(knowledge_base', 1, Len(knowledge_base))
                 = knowledge_base
            /\ knowledge_base'[Len(knowledge_base')].title = args'.title
            /\ knowledge_base'[Len(knowledge_base')].content = args'.content
            /\ document_count' = document_count + 1
       ELSE /\ knowledge_base' = knowledge_base
            /\ document_count' = document_count]_vars

\* a question was asked of a knowledge base of two documents
C10_Witness ==
    /\ op = "ask_question"
    /\ Len(knowledge_base) = 2
    /\ ret.success

\* C11: no operation raises; with an empty knowledge base or a query of no
\* terms a search returns the empty list, generate_answer a fixed message
\* and ask_question its fixed message.
C11_NoOperationRaises ==
    /\ raised = "None"
    /\ (op = "simple_search"
           /\ (knowledge_base = <<>> \/ Terms(args.query) = <<>>))
         => ret = <<>>
    /\ (op = "generate_answer" /\ Terms(args.query) = <<>>)
         => ret \in {NotFoundMsg, InsufficientMsg}
    /\ (op = "ask_question"
           /\ (knowledge_base = <<>> \/ Terms(args.question) = <<>>))
         => ret.answer = NoDocumentsMsg /\ ret.sources = <<>>

\* a question of no terms was asked of a knowledge base that holds a
\* document of empty title and content
C11_Witness ==
    /\ op = "ask_question"
    /\ Terms(args.question) = <<>>
    /\ \E i \in 1..Len(knowledge_base) :
           /\ knowledge_base[i].title = <<>>
           /\ knowledge_base[i].content = <<>>

\* C12: on the scenario's knowledge base, simple_search("python language",
\* 2) returns Doc A with score 1.0, then Doc B with score 0.5, "python"
\* matching inside "pythons".
C12_ScenarioSearch ==
    (ScenarioKnowledgeBase /\ op = "simple_search"
        /\ args.query = QueryScenario /\ args.max_results = 2)
        => /\ raised = "None"
           /\ Len(ret) = 2
           /\ ret[1].document = knowledge_base[1]
           /\ ret[2].document = knowledge_base[2]
           /\ ret[1].relevance_score.num = ret[1].relevance_score.den
           /\ 2 * ret[2].relevance_score.num = ret[2].relevance_score.den
           /\ ret[2].matched_words = << <<"p","y","t","h","o","n">> >>

C12_Witness ==
    /\ ScenarioKnowledgeBase
    /\ op = "simple_search"
    /\ args.query = QueryScenario
    /\ args.max_results = 2
    /\ Len(ret) = 2

\* C13: the success flag of ask_question is true exactly when the search
\* for the question returned at least one result.
C13_SuccessIffResults ==
    op = "ask_question" =>
        (ret.success <=>
            simple_search(knowledge_base, args.question, AskMaxResults)
                # <<>>)

\* a question asked of one document found it
C13_Witness ==
    /\ op = "ask_question"
    /\ Len(knowledge_base) = 1
    /\ ret.success
    /\ Len(ret.search_results) = 1

\* the index of the first sentence of content that has a query term, 0 when
\* there is none
FirstRelevant(content, terms) ==
    LET sentences == split_sep(content, SentenceSep)
        hits == { i \in 1..Len(sentences) :
                    \E k \in 1..Len(terms) : Occurs(terms[k], sentences[i]) }
    IN  IF hits = {} THEN 0
        ELSE CHOOSE i \in hits : \A j \in hits : i <= j

\* the first sentence of content that has a query term
FirstRelevantSentence(content, terms) ==
    split_sep(content, SentenceSep)[FirstRelevant(content, terms)]

\* the search results whose document has a sentence with a query term
Contributing(search_results, query) ==
    SelectSeq(search_results,
              LAMBDA r : FirstRelevant(r.document.content, Terms(query)) > 0)

\* the answer has the extractive form
Extractive(answer) == StartsWith(answer, AnswerPrefix)

\* body, with a period appended unless it ends with one
Ended(body) == IF endswith(body, <<".">>) THEN body ELSE body \o <<".">>

\* C14 as stated: the body of an extractive answer is the prefix followed by
\* the first sentence with a query term of each contributing result, in
\* ranked order, joined by single spaces, and ended with a period.
C14_BodyOfWholeSentences ==
    (op = "generate_answer" /\ Extractive(ret)) =>
        LET from == Contributing(args.search_results, args.query)
            fragments ==
                [i \in 1..Len(from) |->
                    FirstRelevantSentence(from[i].document.content,
                                          Terms(args.query))]
        IN  StartsWith(ret, Ended(AnswerPrefix \o join(<<" ">>, fragments))
                            \o SourcesPrefix)

\* C14 amended: each fragment is that first sentence with the whitespace at
\* its two ends removed.
C14_BodyOfStrippedSentences ==
    (op = "generate_answer" /\ Extractive(ret)) =>
        LET from == Contributing(args.search_results, args.query)
            fragments ==
                [i \in 1..Len(from) |->
                    strip(FirstRelevantSentence(from[i].document.content,
                                                Terms(args.query)))]
        IN  StartsWith(ret, Ended(AnswerPrefix \o join(<<" ">>, fragments))
                            \o SourcesPrefix)

\* an extractive answer took a sentence that begins or ends with whitespace
C14_Witness ==
    /\ op = "generate_answer"
    /\ Extractive(ret)
    /\ \E i \in 1..Len(args.search_results) :
           LET content == args.search_results[i].document.content
               terms == Terms(args.query)
           IN  /\ FirstRelevant(content, terms) > 0
               /\ strip(FirstRelevantSentence(content, terms))
                    # FirstRelevantSentence(content, terms)

\* C15: with search results none of whose documents has a sentence with a
\* query term, generate_answer returns the 'insufficient content' message,
\* which carries no sources line.
C15_InsufficientContent ==
    (op = "generate_answer" /\ args.search_results # <<>>
        /\ Contributing(args.search_results, args.query) = <<>>)
        => /\ ret = InsufficientMsg
           /\ ~contains(SourcesPrefix, ret)

\* results that matched a term of the query through the title alone
C15_Witness ==
    /\ op = "generate_answer"
    /\ args.search_results # <<>>
    /\ Terms(args.query) # <<>>
    /\ Contributing(args.search_results, args.query) = <<>>

\* C16: generate_answer returns the 'not found' message exactly when its
\* search_results argument is empty.
C16_NotFoundIffNoResults ==
    op = "generate_answer" =>
        (ret = NotFoundMsg <=> args.search_results = <<>>)

\* generate_answer was given no results for a query with a term
C16_Witness ==
    /\ op = "generate_answer"
    /\ args.search_results = <<>>
    /\ knowledge_base # <<>>
    /\ Terms(args.query) # <<>>

\* the number of maximal runs of non-whitespace characters in text
TokenCount(text) ==
    Cardinality({ i \in 1..Len(text) :
                    /\ text[i] \notin Whitespace
                    /\ (i = 1 \/ text[i - 1] \in Whitespace) })

\* C17: the word_count of every document is the number of
\* whitespace-delimited tokens of its content, in every state.
C17_WordCount ==
    \A i \in 1..Len(knowledge_base) :
        knowledge_base[i].word_count = TokenCount(knowledge_base[i].content)

\* after a later operation, a document of no words and one of several
C17_Witness ==
    /\ op = "generate_answer"
    /\ Len(knowledge_base) = 2
    /\ knowledge_base[1].content = <<>>
    /\ knowledge_base[1].word_count = 0
    /\ knowledge_base[2].word_count > 1

\* C18: a search with a query of no terms returns the empty list and
\* raises nothing.
C18_NoTermsNoResults ==
    (op = "simple_search" /\ Terms(args.query) = <<>>)
        => raised = "None" /\ ret = <<>>

\* a whitespace-only query searched in a knowledge base with documents
C18_Witness ==
    /\ op = "simple_search"
    /\ args.query = QueryBlank
    /\ knowledge_base # <<>>
    /\ args.max_results > 0

\* C19: a search of the empty knowledge base returns the empty list and
\* raises nothing.
C19_EmptyKnowledgeBase ==
    (op = "simple_search" /\ knowledge_base = <<>>)
        => raised = "None" /\ ret = <<>>

\* a query with terms searched in the empty knowledge base
C19_Witness ==
    /\ op = "simple_search"
    /\ knowledge_base = <<>>
    /\ Terms(args.query) # <<>>
    /\ args.max_results > 0

C21_EntryConsistent ==
    op = "simple_search" =>
        \A i \in 1..Len(ret) :
            LET terms == Terms(args.query)
                d == ret[i].document
                text == d.title \o <<" ">> \o d.content
            IN  /\ ret[i].match_count = Len(ret[i].matched_words)
                /\ ret[i].relevance_score.num * Len(terms)
                     = ret[i].match_count * ret[i].relevance_score.den
                /\ ret[i].matched_words
                     = SelectSeq(terms, LAMBDA t : Occurs(t, text))
                /\ \E j \in 1..Len(knowledge_base) : knowledge_base[j] = d

\* a returned entry has two different matched words
C21_Witness ==
    /\ op = "simple_search"
    /\ \E i \in 1..Len(ret) :
           /\ ret[i].match_count = 2
           /\ ret[i].matched_words[1] # ret[i].matched_words[2]

\* C22: the loop is left exactly on a sentinel line (stripped and
\* lower-cased) or a KeyboardInterrupt; an empty line goes back to the
\* prompt without a call of ask_question; another exception raised by
\* ask_question goes to the handler and from there back to the prompt.
C22_LoopControl ==
    [][pc # "exited" =>
        /\ pc' = "exited"
             <=> \/ pc = "check" /\ lower(user_question) \in Sentinels
                 \/ exc' = "KeyboardInterrupt"
        /\ pc' = "check" => user_question' = strip(user_question')
        /\ (pc = "check" /\ user_question = <<>>
               /\ exc' # "KeyboardInterrupt")
             => pc' = "input" /\ asked' = asked
        /\ asked' # asked
             => /\ pc = "answering"
                /\ user_question # <<>>
                /\ lower(user_question) \notin Sentinels
        /\ (pc = "answering" /\ exc' \notin {"None", "KeyboardInterrupt"})
             => pc' = "handler"
        /\ (pc = "handler" /\ exc' # "KeyboardInterrupt")
             => pc' = "input"]_vars

\* after an answered question, the loop was left on a sentinel typed with
\* capital letters
C22_Witness ==
    /\ pc = "exited"
    /\ exc = "None"
    /\ asked > 0
    /\ user_question # lower(user_question)

\* the positions (counted from 0) of the documents with the id doc_id
PositionsOf(docs, doc_id) ==
    {j \in 0..(Len(docs) - 1) : docs[j + 1].id = doc_id}

\* C23: after any sequence of add_document calls of MiniSemanticSearch,
\* documents and embeddings have the same length, the keys of index are the
\* ids of the documents, every key maps to the position of the last
\* document added with that id, and a call leaves the documents that were
\* there in place.
C23_IndexOfLatest ==
    [][/\ Len(documents') = Len(embeddings')
       /\ DOMAIN index' = {documents'[j].id : j \in 1..Len(documents')}
       /\ \A k \in DOMAIN index' :
            /\ index'[k] \in 0..(Len(documents') - 1)
            /\ documents'[index'[k] + 1].id = k
            /\ \A j \in PositionsOf(documents', k) : j <= index'[k]
       /\ Len(documents') >= Len(documents)
       /\ SubSeq(documents', 1, Len(documents)) = documents]_vars

\* a doc_id was added, then another, then the first again: both documents
\* of the repeated id are there and the index has the later one
C23_Witness ==
    /\ Len(documents) = 3
    /\ documents[1].id = documents[3].id
    /\ documents[2].id # documents[1].id
    /\ index[documents[3].id] = 2
    /\ index[documents[2].id] = 1

====
